---- MODULE Spec2Model ----
(***************************************************************************)
(* The sites toolbox page of the OCF dashboard (src/src/sites_toolbox.py). *)
(*                                                                         *)
(* The store holds sites, site groups with their member sites, and users   *)
(* with their one site group.  Every action is one rerun of                *)
(* sites_toolbox_page with at most one button clicked: the script runs top *)
(* to bottom, calls the helper behind the clicked button, and stops at the *)
(* first exception.                                                        *)
(***************************************************************************)
EXTENDS Integers, Sequences, FiniteSets, Bags, TLC

VARIABLES
    db,      \* the committed store: [sites, group_sites, user_group]
    last,    \* the last page run: button, inputs, outcome, what was returned
    repeat,  \* this run repeats the previous run, which completed
    trace    \* session and helper-call events of the last page run, in order

vars == <<db, last, repeat, trace>>

----------------------------------------------------------------------------
(* Bounds and the fixed population of the store. *)

MaxSites == 2

Users == {"a@ocf", "b@ocf"}

SiteGroups == {"ocf", "grp"}

QueryMethods == {"site_uuid", "client_site_id"}

\* Free text is a sequence of characters; "" is <<>>.
ClientIdTexts == {<<"1">>, <<"2">>}

----------------------------------------------------------------------------
(* Values. *)

None == [some |-> FALSE, v |-> <<>>]

Some(x) == [some |-> TRUE, v |-> x]

Digit(n) == CASE n = 0 -> "0" [] n = 1 -> "1" [] n = 2 -> "2" [] n = 3 -> "3"
              [] n = 4 -> "4" [] n = 5 -> "5" [] n = 6 -> "6" [] n = 7 -> "7"
              [] n = 8 -> "8" [] n = 9 -> "9"

RECURSIVE IntToStr(_)
\* str(n) of a non-negative integer: its decimal digits.
IntToStr(n) == IF n < 10 THEN <<Digit(n)>>
               ELSE IntToStr(n \div 10) \o <<Digit(n % 10)>>

DigitValue(c) == CASE c = "0" -> 0 [] c = "1" -> 1 [] c = "2" -> 2 [] c = "3" -> 3
                   [] c = "4" -> 4 [] c = "5" -> 5 [] c = "6" -> 6 [] c = "7" -> 7
                   [] c = "8" -> 8 [] c = "9" -> 9 [] OTHER -> -1

IsNumeric(text) == Len(text) > 0 /\ \A i \in DOMAIN text : DigitValue(text[i]) >= 0

RECURSIVE ParseInt(_)
\* The integer a numeric text denotes.
ParseInt(text) == IF Len(text) = 0 THEN 0
                  ELSE 10 * ParseInt(SubSeq(text, 1, Len(text) - 1))
                       + DigitValue(text[Len(text)])

\* str(site.site_uuid): the text form of a UUID.
UuidStr(u) == <<"u", "-">> \o IntToStr(u)

----------------------------------------------------------------------------
(* The data access layer.  A site row is [site_uuid, client_site_id]; the   *)
(* other columns are carried verbatim by every helper and are left out.     *)
(* db.sites is ordered by ml_id; db.group_sites[g] holds the membership     *)
(* rows of group g, a bag of site UUIDs, since the store keeps no order     *)
(* among them; db.user_group[u] is the one group of user u.  A list the     *)
(* helpers build from site_group.sites is a bag for the same reason.        *)

\* pvsite_datamodel.read.get_all_sites: every site, ordered by ml_id.
get_all_sites(d) == d.sites

\* pvsite_datamodel.read.get_site_by_uuid on a key that exists; site.site_groups
\* is the set of groups whose member list holds the site.
get_site_by_uuid(d, key) ==
    LET i == CHOOSE i \in DOMAIN d.sites : UuidStr(d.sites[i].site_uuid) = key
        site == d.sites[i]
    IN [site_uuid |-> site.site_uuid,
        client_site_id |-> site.client_site_id,
        site_groups |-> {g \in SiteGroups : BagIn(site.site_uuid, d.group_sites[g])}]

\* pvsite_datamodel.read.get_site_group_by_name on an existing group.
get_site_group_by_name(d, site_group_name) ==
    [site_group_name |-> site_group_name,
     sites |-> d.group_sites[site_group_name],
     users |-> {u \in Users : d.user_group[u] = site_group_name}]

\* pvsite_datamodel.read.get_user_by_email on an existing user.
get_user_by_email(d, email) ==
    [email |-> email, site_group |-> get_site_group_by_name(d, d.user_group[email])]

\* get_data.get_site_by_client_site_id: the first site, by ml_id, with the
\* client-assigned identifier; None when there is none.
get_site_by_client_site_id(d, client_site_id) ==
    LET hits == {i \in DOMAIN d.sites :
                    client_site_id.some
                    /\ IntToStr(d.sites[i].client_site_id) = client_site_id.v}
    IN IF hits = {} THEN None
       ELSE Some(d.sites[CHOOSE i \in hits : \A j \in hits : i <= j])

\* get_data.add_site_to_site_group: the site joins the group unless it is a
\* member already; committed.
add_site_to_site_group(d, site_uuid, site_group_name) ==
    IF BagIn(site_uuid, d.group_sites[site_group_name]) THEN d
    ELSE [d EXCEPT !.group_sites[site_group_name] = @ (+) SetToBag({site_uuid})]

\* get_data.update_user_site_group: the user's group is replaced; committed.
update_user_site_group(d, email, site_group_name) ==
    [d EXCEPT !.user_group[email] = site_group_name]

\* get_data.create_new_site: a new row with the next ml_id and a fresh UUID,
\* echoing the submitted values in the column's type.  The helpers use a
\* UUID only as a key, so the fresh one is named after the row's ml_id.  The
\* layer rejects a submission it cannot store (accepted = FALSE, or a
\* client_site_id that is no integer).
create_new_site(d, client_site_id, accepted) ==
    IF accepted /\ IsNumeric(client_site_id)
    THEN [raised |-> FALSE,
          db |-> [d EXCEPT !.sites =
                     Append(@, [site_uuid |-> Len(d.sites) + 1,
                                client_site_id |-> ParseInt(client_site_id)])]]
    ELSE [raised |-> TRUE, db |-> d]

----------------------------------------------------------------------------
(* The query and mutation helpers. *)

\* The {site_uuid, client_site_id} display entry of the site with this UUID.
SiteEntry(d, site_uuid) ==
    LET site == get_site_by_uuid(d, UuidStr(site_uuid))
    IN [site_uuid |-> UuidStr(site.site_uuid),
        client_site_id |-> IntToStr(site.client_site_id)]

SiteEntries(d, uuids) ==
    LET Entry(u) == SiteEntry(d, u) IN BagOfAll(Entry, uuids)

\* get_user_details with the count taken over all sites, not the group's.
get_user_details_counting_all_sites(d, email) ==
    LET user_details == get_user_by_email(d, email)
    IN [user_sites |-> SiteEntries(d, user_details.site_group.sites),
        user_site_group |-> user_details.site_group.site_group_name,
        user_site_count |-> Len(get_all_sites(d))]

get_user_details(d, email) ==
    LET user_details == get_user_by_email(d, email)
    IN [user_sites |-> SiteEntries(d, user_details.site_group.sites),
        user_site_group |-> user_details.site_group.site_group_name,
        user_site_count |-> BagCardinality(user_details.site_group.sites)]

get_site_details(d, site_uuid) ==
    LET site == get_site_by_uuid(d, site_uuid)
    IN [site_uuid |-> UuidStr(site.site_uuid),
        client_site_id |-> IntToStr(site.client_site_id),
        site_group_names |-> site.site_groups]

\* st.selectbox: the chosen option, None when there are no options.
selectbox(options, choice) ==
    IF Len(options) = 0 THEN None ELSE Some(options[choice])

\* select_site_id whose client_site_id branch ignores the identifier chosen
\* and resolves to the first site.
select_site_id_first_site(d, query_method, choice) ==
    IF Len(get_all_sites(d)) = 0
    THEN [raised |-> query_method # "site_uuid", selected_uuid |-> None]
    ELSE IF query_method = "site_uuid"
    THEN [raised |-> FALSE,
          selected_uuid |-> Some(UuidStr(get_all_sites(d)[choice].site_uuid))]
    ELSE [raised |-> FALSE,
          selected_uuid |-> Some(UuidStr(get_all_sites(d)[1].site_uuid))]

\* select_site_id: query_method is one of the two radio options.  With no
\* site to choose, the client_site_id branch finds no site and raises.
select_site_id(d, query_method, choice) ==
    IF query_method = "site_uuid"
    THEN LET site_uuids == [i \in DOMAIN get_all_sites(d) |->
                               UuidStr(get_all_sites(d)[i].site_uuid)]
         IN [raised |-> FALSE, selected_uuid |-> selectbox(site_uuids, choice)]
    ELSE LET client_site_ids == [i \in DOMAIN get_all_sites(d) |->
                                    IntToStr(get_all_sites(d)[i].client_site_id)]
             client_site_id == selectbox(client_site_ids, choice)
             site == get_site_by_client_site_id(d, client_site_id)
         IN IF site.some
            THEN [raised |-> FALSE, selected_uuid |-> Some(UuidStr(site.v.site_uuid))]
            ELSE [raised |-> TRUE, selected_uuid |-> None]

get_site_group_details(d, site_group_name) ==
    LET site_group_uuid == get_site_group_by_name(d, site_group_name)
    IN [site_group_sites |-> SiteEntries(d, site_group_uuid.sites),
        site_group_users |-> site_group_uuid.users]

\* update_site_group that adds a membership row whether or not there is one.
update_site_group_appending(d, site_uuid, site_group_name) ==
    LET after == [d EXCEPT !.group_sites[site_group_name] = @ (+) SetToBag({site_uuid})]
        site_group == get_site_group_by_name(after, site_group_name)
        site == get_site_by_uuid(after, UuidStr(site_uuid))
    IN [db |-> after,
        site_group |-> site_group.site_group_name,
        site_group_sites |-> SiteEntries(after, site_group.sites),
        site_site_groups |-> site.site_groups]

\* update_site_group that moves the site: it leaves every other group.
update_site_group_moving(d, site_uuid, site_group_name) ==
    LET added == add_site_to_site_group(d, site_uuid, site_group_name)
        after == [added EXCEPT !.group_sites =
                     [g \in SiteGroups |->
                         IF g = site_group_name THEN added.group_sites[g]
                         ELSE added.group_sites[g] (-) SetToBag({site_uuid})]]
        site_group == get_site_group_by_name(after, site_group_name)
        site == get_site_by_uuid(after, UuidStr(site_uuid))
    IN [db |-> after,
        site_group |-> site_group.site_group_name,
        site_group_sites |-> SiteEntries(after, site_group.sites),
        site_site_groups |-> site.site_groups]

\* update_site_group for an existing site and group: the store afterwards and
\* what is returned.
update_site_group(d, site_uuid, site_group_name) ==
    LET after == add_site_to_site_group(d, site_uuid, site_group_name)
        site_group == get_site_group_by_name(after, site_group_name)
        site == get_site_by_uuid(after, UuidStr(site_uuid))
    IN [db |-> after,
        site_group |-> site_group.site_group_name,
        site_group_sites |-> SiteEntries(after, site_group.sites),
        site_site_groups |-> site.site_groups]

\* change_user_site_group that reports the new group without storing it.
change_user_site_group_unsaved(d, email, site_group_name) ==
    [db |-> d, user |-> get_user_by_email(d, email).email,
     user_site_group |-> site_group_name]

change_user_site_group(d, email, site_group_name) ==
    LET after == update_user_site_group(d, email, site_group_name)
        user == get_user_by_email(after, email)
    IN [db |-> after,
        user |-> user.email,
        user_site_group |-> user.site_group.site_group_name]

----------------------------------------------------------------------------
(* add_all_sites_to_ocf_group.  failAt is the number of commits that succeed *)
(* before one raises; a run that needs no more than failAt commits           *)
(* completes.  What a failed run had appended but not committed is lost with *)
(* its session.                                                              *)

Added(n, site_group_name) == [text |-> "Added", n |-> n, group |-> site_group_name]

NoNewSites(site_group_name) == [text |-> "NoNewSites", n |-> 0, group |-> site_group_name]

Unset == [text |-> "Unset", n |-> 0, group |-> ""]

RECURSIVE AddAllLoop(_, _, _, _, _, _)
\* The for loop over all_sites from index i on; st holds the group's list in
\* the session, the committed list, sites_added, message and the commits made.
AddAllLoop(all_sites, i, site_uuids, site_group_name, failAt, st) ==
    IF i > Len(all_sites) \/ st.raised THEN st
    ELSE LET site == all_sites[i]
         IN IF ~BagIn(site.site_uuid, site_uuids)
            THEN LET appended == st.sites (+) SetToBag({site.site_uuid})
                     sites_added == Append(st.sites_added, UuidStr(site.site_uuid))
                 IN IF st.commits = failAt
                    THEN [st EXCEPT !.sites = appended,
                                    !.sites_added = sites_added,
                                    !.raised = TRUE]
                    ELSE AddAllLoop(all_sites, i + 1, site_uuids, site_group_name, failAt,
                             [st EXCEPT !.sites = appended,
                                        !.sites_added = sites_added,
                                        !.committed = appended,
                                        !.commits = @ + 1,
                                        !.message = Added(Len(sites_added), site_group_name)])
            ELSE AddAllLoop(all_sites, i + 1, site_uuids, site_group_name, failAt, st)

\* The body of add_all_sites_to_ocf_group once site_uuids has been read.
AddAllRun(d, site_group_name, failAt, site_uuids) ==
    LET ocf_site_group == get_site_group_by_name(d, site_group_name)
        st == AddAllLoop(get_all_sites(d), 1, site_uuids, site_group_name, failAt,
                  [sites |-> ocf_site_group.sites,
                   committed |-> ocf_site_group.sites,
                   sites_added |-> <<>>,
                   message |-> Unset,
                   commits |-> 0,
                   raised |-> FALSE])
    IN [db |-> [d EXCEPT !.group_sites[site_group_name] = st.committed],
        raised |-> st.raised,
        commits |-> st.commits,
        sites_added |-> st.sites_added,
        message |-> IF ~st.raised /\ Len(st.sites_added) = 0
                    THEN NoNewSites(site_group_name) ELSE st.message]

\* add_all_sites_to_ocf_group without the membership test.
add_all_sites_without_membership_test(d, site_group_name, failAt) ==
    AddAllRun(d, site_group_name, failAt, EmptyBag)

\* add_all_sites_to_ocf_group with one commit after the loop: a run that
\* raises has committed nothing.
add_all_sites_single_commit(d, site_group_name, failAt) ==
    LET r == AddAllRun(d, site_group_name, failAt,
                       get_site_group_by_name(d, site_group_name).sites)
    IN IF r.raised THEN [r EXCEPT !.db = d] ELSE r

\* add_all_sites_to_ocf_group whose message counts every site, not the
\* sites added.
add_all_sites_counting_all_sites(d, site_group_name, failAt) ==
    LET r == AddAllRun(d, site_group_name, failAt,
                       get_site_group_by_name(d, site_group_name).sites)
    IN IF r.message.text = "Added"
       THEN [r EXCEPT !.message = Added(Len(get_all_sites(d)), site_group_name)]
       ELSE r

add_all_sites_to_ocf_group(d, site_group_name, failAt) ==
    AddAllRun(d, site_group_name, failAt, get_site_group_by_name(d, site_group_name).sites)

----------------------------------------------------------------------------
(* The "Create New Site" form. *)

RawFields == {"client_site_id", "client_site_name", "dno_id", "dno_name",
              "dno_long_name", "gsp_id", "gsp_name", "latitude", "longitude",
              "region", "orientation", "tilt", "inverter_capacity_kw",
              "module_capacity_kw", "capacity_kw"}

FilledForm(client_site_id) ==
    [f \in RawFields |-> IF f = "client_site_id" THEN client_site_id ELSE <<"1">>]

\* What the operator typed: everything, everything but one field, or nothing.
Forms == {FilledForm(c) : c \in ClientIdTexts}
         \cup {[FilledForm(<<"1">>) EXCEPT ![f] = <<>>] : f \in RawFields}
         \cup {[f \in RawFields |-> <<>>]}

\* st.text_input: the text typed, "" when nothing was typed; never None.
text_input(form, label) == Some(form[label])

\* json.dumps of a dict of strings: braces around the quoted values.
json_dumps(values) ==
    LET RECURSIVE Join(_)
        Join(i) == IF i > Len(values) THEN <<>>
                   ELSE <<"\"">> \o values[i].v \o <<"\"">>
                        \o (IF i < Len(values) THEN <<",">> ELSE <<>>) \o Join(i + 1)
    IN Some(<<"{">> \o Join(1) \o <<"}">>)

FieldNames == <<"client_site_id", "client_site_name", "region", "dno", "gsp",
                "orientation", "tilt", "latitude", "longitude",
                "inverter_capacity_kw", "module_capacity_kw", "capacity_kw">>

\* The twelve values the "Create new site" branch tests and submits.
SubmittedFields(form) ==
    LET dno_formatted == json_dumps(<<text_input(form, "dno_id"),
                                      text_input(form, "dno_name"),
                                      text_input(form, "dno_long_name")>>)
        gsp_formatted == json_dumps(<<text_input(form, "gsp_id"),
                                      text_input(form, "gsp_name")>>)
    IN [i \in DOMAIN FieldNames |->
           CASE FieldNames[i] = "dno" -> dno_formatted
             [] FieldNames[i] = "gsp" -> gsp_formatted
             [] OTHER -> text_input(form, FieldNames[i])]

\* The test of the "Create new site" branch: None in [the twelve values].
NoneInFields(fields) == \E i \in DOMAIN fields : fields[i] = None

----------------------------------------------------------------------------
(* sites_toolbox_page: the events of one run of the script.  `session` is   *)
(* bound to session 1 by the first with block and stays bound to it after   *)
(* the block is left; the with block of the "Create New Site" expander      *)
(* rebinds it to session 2.                                                 *)

Enter(s) == [ev |-> "enter", session |-> s, helper |-> ""]

Exit(s) == [ev |-> "exit", session |-> s, helper |-> ""]

Call(helper, s) == [ev |-> "call", session |-> s, helper |-> helper]

\* The helper behind each button.
Buttons == {"get_user_details", "get_site_details", "get_site_group_details",
            "update_site_group", "add_all_sites_to_ocf_group",
            "change_user_site_group", "create_new_site"}

\* The first with block: the lists the widgets offer.
LoadLists ==
    <<Enter(1), Call("get_all_users", 1), Call("get_all_site_groups", 1),
      Call("get_all_sites", 1), Exit(1)>>

\* The call a section makes when its button is the one clicked.
Section(button, clicked) == IF clicked = button THEN <<Call(button, 1)>> ELSE <<>>

\* The "Create New Site" expander: its own with block around the form.
CreateSection(create_called) ==
    <<Enter(2)>>
    \o (IF create_called THEN <<Call("create_new_site", 2)>> ELSE <<>>)
    \o <<Exit(2)>>

\* One run, top to bottom; an exception ends the run where it is raised.
PageTrace(clicked, select_raised, handler_raised, create_called) ==
    LoadLists
    \o Section("get_user_details", clicked)
    \o <<Call("select_site_id", 1)>>
    \o (IF select_raised THEN <<>>
        ELSE Section("get_site_details", clicked)
             \o Section("get_site_group_details", clicked)
             \o Section("update_site_group", clicked)
             \o Section("add_all_sites_to_ocf_group", clicked)
             \o Section("change_user_site_group", clicked)
             \o (IF handler_raised THEN <<>> ELSE CreateSection(create_called)))

----------------------------------------------------------------------------
(* The page runs. *)

NoRun == [op |-> "none", email |-> "", site |-> 0, group |-> "",
          query_method |-> "", choice |-> 0, status |-> "ok", out |-> <<>>]

\* The options a selectbox over the sites offers (index 1 stands for the
\* empty box when there is no site).
Choices(d) == IF Len(d.sites) = 0 THEN {1} ELSE 1..Len(d.sites)

\* Whether the select_site_id call of a run raises, over every radio option
\* and every choice the operator can have made.
SelectRaises(d) ==
    {select_site_id(d, query_method, choice).raised :
        query_method \in QueryMethods, choice \in Choices(d)}

\* The run asks for what the previous run asked for, and that run completed.
Repeats(run) ==
    /\ last.status = "ok"
    /\ last.op = run.op
    /\ last.email = run.email
    /\ last.site = run.site
    /\ last.group = run.group

Finish(d, run, page_trace) ==
    /\ db' = d
    /\ last' = run
    /\ repeat' = Repeats(run)
    /\ trace' = page_trace

\* A run in which select_site_id raised before the clicked section was reached.
Skipped(op) ==
    Finish(db, [NoRun EXCEPT !.op = op, !.status = "skipped"],
           PageTrace(op, TRUE, FALSE, FALSE))

Init ==
    /\ db \in {[sites |-> <<>>,
                group_sites |-> [g \in SiteGroups |-> EmptyBag],
                user_group |-> ug] : ug \in [Users -> SiteGroups]}
    /\ last = NoRun
    /\ repeat = FALSE
    /\ trace = <<>>

\* A rerun with no helper button clicked (a widget changed).
PageIdle ==
    \E query_method \in QueryMethods, choice \in Choices(db) :
        LET sel == select_site_id(db, query_method, choice)
        IN Finish(db,
                  [NoRun EXCEPT !.op = "idle", !.query_method = query_method,
                                !.choice = choice,
                                !.status = IF sel.raised THEN "raised" ELSE "ok",
                                !.out = sel.selected_uuid],
                  PageTrace("none", sel.raised, FALSE, FALSE))

\* get_user_details is called before select_site_id is.
ClickGetUserDetails ==
    \E email \in Users, select_raised \in SelectRaises(db) :
        Finish(db,
               [NoRun EXCEPT !.op = "get_user_details", !.email = email,
                             !.out = get_user_details(db, email)],
               PageTrace("get_user_details", select_raised, FALSE, FALSE))

ClickGetSiteDetails ==
    \E query_method \in QueryMethods, choice \in Choices(db) :
        LET sel == select_site_id(db, query_method, choice)
            run == [NoRun EXCEPT !.op = "get_site_details",
                                 !.query_method = query_method, !.choice = choice]
        IN IF sel.raised THEN Skipped("get_site_details")
           ELSE IF ~sel.selected_uuid.some
           THEN Finish(db, [run EXCEPT !.status = "raised"],
                       PageTrace("get_site_details", FALSE, TRUE, FALSE))
           ELSE Finish(db,
                       [run EXCEPT !.out = get_site_details(db, sel.selected_uuid.v)],
                       PageTrace("get_site_details", FALSE, FALSE, FALSE))

ClickGetSiteGroupDetails ==
    \E site_group_name \in SiteGroups, select_raised \in SelectRaises(db) :
        IF select_raised THEN Skipped("get_site_group_details")
        ELSE Finish(db,
                    [NoRun EXCEPT !.op = "get_site_group_details",
                                  !.group = site_group_name,
                                  !.out = get_site_group_details(db, site_group_name)],
                    PageTrace("get_site_group_details", FALSE, FALSE, FALSE))

\* With no site the selectbox yields None and the helper's lookup raises.
ClickAddSiteToGroup ==
    \E pick \in Choices(db), site_group \in SiteGroups,
       select_raised \in SelectRaises(db) :
        LET site_uuid_list == [i \in DOMAIN get_all_sites(db) |->
                                  get_all_sites(db)[i].site_uuid]
            run == [NoRun EXCEPT !.op = "update_site_group", !.group = site_group]
        IN IF select_raised THEN Skipped("update_site_group")
           ELSE IF Len(site_uuid_list) = 0
           THEN Finish(db, [run EXCEPT !.status = "raised"],
                       PageTrace("update_site_group", FALSE, TRUE, FALSE))
           ELSE LET r == update_site_group(db, site_uuid_list[pick], site_group)
                IN Finish(r.db,
                          [run EXCEPT !.site = site_uuid_list[pick],
                                      !.out = [site_group |-> r.site_group,
                                               site_group_sites |-> r.site_group_sites,
                                               site_site_groups |-> r.site_site_groups]],
                          PageTrace("update_site_group", FALSE, FALSE, FALSE))

\* A run that raises returns nothing: no message, no sites_added.
ClickAddAllSites ==
    \E failAt \in 0..Len(db.sites), select_raised \in SelectRaises(db) :
        LET r == add_all_sites_to_ocf_group(db, "ocf", failAt)
        IN IF select_raised THEN Skipped("add_all_sites_to_ocf_group")
           ELSE Finish(r.db,
                       [NoRun EXCEPT !.op = "add_all_sites_to_ocf_group",
                                     !.group = "ocf",
                                     !.status = IF r.raised THEN "raised" ELSE "ok",
                                     !.out = [commits |-> r.commits,
                                              sites_added |-> IF r.raised THEN <<>>
                                                              ELSE r.sites_added,
                                              message |-> IF r.raised THEN Unset
                                                          ELSE r.message]],
                       PageTrace("add_all_sites_to_ocf_group", FALSE, r.raised, FALSE))

ClickChangeUserSiteGroup ==
    \E email \in Users, site_group_name \in SiteGroups,
       select_raised \in SelectRaises(db) :
        LET r == change_user_site_group(db, email, site_group_name)
        IN IF select_raised THEN Skipped("change_user_site_group")
           ELSE Finish(r.db,
                       [NoRun EXCEPT !.op = "change_user_site_group",
                                     !.email = email, !.group = site_group_name,
                                     !.out = <<r.user, r.user_site_group>>],
                       PageTrace("change_user_site_group", FALSE, FALSE, FALSE))

\* The values among the twelve submitted that are the empty text.
EmptyFields(fields) == {FieldNames[i] : i \in {j \in DOMAIN fields : fields[j].v = <<>>}}

\* The with block of the expander is left when create_new_site raises, too.
ClickCreateNewSite ==
    /\ Len(db.sites) < MaxSites
    /\ \E form \in Forms, accepted \in BOOLEAN, select_raised \in SelectRaises(db) :
        LET fields == SubmittedFields(form)
            run == [NoRun EXCEPT !.op = "create_new_site"]
        IN IF select_raised THEN Skipped("create_new_site")
           ELSE IF NoneInFields(fields)
           THEN Finish(db,
                       [run EXCEPT !.out = [called |-> FALSE,
                                            empty |-> EmptyFields(fields),
                                            shown |-> "please_check"]],
                       PageTrace("create_new_site", FALSE, FALSE, FALSE))
           ELSE LET r == create_new_site(db, fields[1].v, accepted)
                IN Finish(r.db,
                          [run EXCEPT !.status = IF r.raised THEN "raised" ELSE "ok",
                                      !.site = IF r.raised THEN 0 ELSE Len(r.db.sites),
                                      !.out = [called |-> TRUE,
                                               empty |-> EmptyFields(fields),
                                               shown |-> IF r.raised THEN "error"
                                                         ELSE "site_details"]],
                          PageTrace("create_new_site", FALSE, FALSE, TRUE))

Next ==
    \/ PageIdle
    \/ ClickGetUserDetails
    \/ ClickGetSiteDetails
    \/ ClickGetSiteGroupDetails
    \/ ClickAddSiteToGroup
    \/ ClickAddAllSites
    \/ ClickChangeUserSiteGroup
    \/ ClickCreateNewSite

Spec == Init /\ [][Next]_vars

----------------------------------------------------------------------------
(* Properties. *)

BulkAttach == "add_all_sites_to_ocf_group"

\* The UUIDs of the sites that are no member of the group, in get_all_sites order.
Missing(d, site_group_name) ==
    LET NotMember(site) == ~BagIn(site.site_uuid, d.group_sites[site_group_name])
        sites == SelectSeq(get_all_sites(d), NotMember)
    IN [i \in DOMAIN sites |-> sites[i].site_uuid]

\* Every site of the store has exactly one membership row in the group.
AllSitesOnce(d, site_group_name) ==
    \A i \in DOMAIN d.sites :
        CopiesIn(d.sites[i].site_uuid, d.group_sites[site_group_name]) = 1

\* C1: when add_all_sites_to_ocf_group completes and is run again at once on
\* the same group, the second run returns an empty sites_added and the "There
\* are no new sites to be added" message and leaves the membership unchanged.
C1_SecondBulkAttachAddsNothing ==
    [][(/\ last.op = BulkAttach /\ last.status = "ok"
        /\ last'.op = BulkAttach /\ last'.status = "ok"
        /\ last'.group = last.group)
       => /\ last'.out.sites_added = <<>>
          /\ last'.out.message = NoNewSites(last'.group)
          /\ db'.group_sites = db.group_sites]_vars

\* A completed bulk attach right after a completed one, with every site stored.
C1_Witness ==
    /\ last.op = BulkAttach /\ last.status = "ok" /\ repeat
    /\ Len(db.sites) = MaxSites
    /\ AllSitesOnce(db, "ocf")

\* C2: add_all_sites_to_ocf_group commits once per site added: a run that
\* raises after k commits has stored exactly the first k missing memberships
\* and changed nothing else, a run that completes has committed once per site
\* added, and a completed run right after a failed one leaves every site in
\* the group exactly once.
C2_FailedBulkAttachKeepsCommitted ==
    [][last'.op = BulkAttach /\ last'.status # "skipped"
       => LET k == last'.out.commits
              missing == Missing(db, "ocf")
          IN /\ last'.status = "raised"
                => /\ k < Len(missing)
                   /\ db' = [db EXCEPT !.group_sites["ocf"] =
                                @ (+) SetToBag({missing[i] : i \in 1..k})]
             /\ last'.status = "ok" => k = Len(last'.out.sites_added)
             /\ (last.op = BulkAttach /\ last.status = "raised" /\ last'.status = "ok")
                => AllSitesOnce(db', "ocf")]_vars

\* A bulk attach that raised after committing one of two additions.
C2_Witness ==
    /\ last.op = BulkAttach /\ last.status = "raised"
    /\ last.out.commits = 1
    /\ Len(Missing(db, "ocf")) = 1

NoDuplicateMembership(d) ==
    \A g \in SiteGroups : \A i \in DOMAIN d.sites :
        CopiesIn(d.sites[i].site_uuid, d.group_sites[g]) <= 1

\* C3: after update_site_group(S, G) the site S has exactly one membership in
\* G, no group ever holds a site more than once, and a second call with the
\* same S and G leaves the membership relation unchanged.
C3_AttachIsIdempotent ==
    [][/\ NoDuplicateMembership(db')
       /\ (last'.op = "update_site_group" /\ last'.status = "ok")
          => /\ CopiesIn(last'.site, db'.group_sites[last'.group]) = 1
             /\ repeat' => db'.group_sites = db.group_sites]_vars

\* The same site attached to the same group twice in a row.
C3_Witness ==
    /\ last.op = "update_site_group" /\ last.status = "ok" /\ repeat
    /\ CopiesIn(last.site, db.group_sites[last.group]) = 1

\* C4: update_site_group(S, G) changes only the membership of S in G: every
\* other group keeps its sites, every other site keeps its groups, and the
\* sites and every user's group are unchanged.
C4_AttachChangesOnlyThatMembership ==
    [][(last'.op = "update_site_group" /\ last'.status = "ok")
       => /\ \A h \in SiteGroups \ {last'.group} :
                db'.group_sites[h] = db.group_sites[h]
          /\ \A g \in SiteGroups : \A u \in 1..MaxSites :
                u # last'.site
                => CopiesIn(u, db'.group_sites[g]) = CopiesIn(u, db.group_sites[g])
          /\ db'.user_group = db.user_group
          /\ db'.sites = db.sites]_vars

\* A site that is a member of one group has been attached to the other.
C4_Witness ==
    /\ last.op = "update_site_group" /\ last.status = "ok"
    /\ \A g \in SiteGroups : BagIn(last.site, db.group_sites[g])
    /\ \E i \in DOMAIN db.sites :
          /\ db.sites[i].site_uuid # last.site
          /\ \E g \in SiteGroups : BagIn(db.sites[i].site_uuid, db.group_sites[g])

\* The groups that count the user among their users.
GroupsOfUser(d, email) ==
    {g \in SiteGroups : email \in get_site_group_by_name(d, g).users}

\* C5: after change_user_site_group(email, B) the user is in exactly one
\* group, B, is no longer among the users of the former group A when A # B,
\* and the pair returned is the email and B; every user is in exactly one
\* group in every state.
C5_ReassignReplacesGroup ==
    [][/\ \A u \in Users : Cardinality(GroupsOfUser(db', u)) = 1
       /\ (last'.op = "change_user_site_group" /\ last'.status = "ok")
          => /\ GroupsOfUser(db', last'.email) = {last'.group}
             /\ db.user_group[last'.email] # last'.group
                => last'.email \notin
                      get_site_group_by_name(db', db.user_group[last'.email]).users
             /\ last'.out = <<last'.email, last'.group>>]_vars

\* A user has been moved out of the group of the other user.
C5_Witness ==
    /\ last.op = "change_user_site_group" /\ last.status = "ok"
    /\ \E u \in Users : db.user_group[u] # db.user_group[last.email]

\* The entry get_user_details is to return for a site row.
ExpectedEntry(site) ==
    [site_uuid |-> UuidStr(site.site_uuid),
     client_site_id |-> IntToStr(site.client_site_id)]

\* C8: for every user, get_user_details returns the name of the user's
\* current group, the number of sites in that group, and a site list with
\* exactly one {site_uuid, client_site_id} entry per site of the group and
\* no other entry.
C8_UserDetailsMatchStore ==
    \A u \in Users :
        LET got == get_user_details(db, u)
            members == db.group_sites[db.user_group[u]]
        IN /\ got.user_site_group = db.user_group[u]
           /\ got.user_site_count = BagCardinality(members)
           /\ BagCardinality(got.user_sites) = got.user_site_count
           /\ \A i \in DOMAIN db.sites :
                 CopiesIn(ExpectedEntry(db.sites[i]), got.user_sites)
                    = IF BagIn(db.sites[i].site_uuid, members) THEN 1 ELSE 0
           /\ (last.op = "get_user_details" /\ last.email = u) => last.out = got

\* The details of a user whose group holds every site were asked for.
C8_Witness ==
    /\ last.op = "get_user_details"
    /\ Len(db.sites) = MaxSites
    /\ last.out.user_site_count = MaxSites
    /\ \E u \in Users : db.user_group[u] # db.user_group[last.email]
                        /\ db.group_sites[db.user_group[u]] = EmptyBag

\* The client-assigned identifier of the i-th site matches that site alone.
MatchesOneSite(d, i) ==
    \A j \in DOMAIN d.sites :
        d.sites[j].client_site_id = d.sites[i].client_site_id => j = i

\* C9: choosing by client_site_id an identifier that matches exactly one site
\* resolves to the UUID of that site, and get_site_details then returns what
\* it returns for the same site chosen by site_uuid.
C9_ClientIdResolvesToSameSite ==
    /\ \A i \in DOMAIN db.sites :
          MatchesOneSite(db, i)
          => LET by_client == select_site_id(db, "client_site_id", i)
                 by_uuid == select_site_id(db, "site_uuid", i)
             IN /\ ~by_client.raised /\ ~by_uuid.raised
                /\ by_client.selected_uuid = Some(UuidStr(db.sites[i].site_uuid))
                /\ get_site_details(db, by_client.selected_uuid.v)
                      = get_site_details(db, by_uuid.selected_uuid.v)
    /\ (/\ last.op = "get_site_details" /\ last.status = "ok"
        /\ last.query_method = "client_site_id"
        /\ MatchesOneSite(db, last.choice))
       => /\ last.out.site_uuid = UuidStr(db.sites[last.choice].site_uuid)
          /\ last.out = get_site_details(
                            db, select_site_id(db, "site_uuid", last.choice).selected_uuid.v)

\* The second of two sites with different identifiers was looked up by its
\* client_site_id.
C9_Witness ==
    /\ last.op = "get_site_details" /\ last.status = "ok"
    /\ last.query_method = "client_site_id" /\ last.choice = 2
    /\ MatchesOneSite(db, 2)
    /\ last.out.site_group_names # {}

\* C10: a run of add_all_sites_to_ocf_group that completes returns as
\* sites_added the sites that were no member when it started, each once and
\* in get_all_sites order, leaves every site a member, and returns "Added N
\* sites" with N the length of sites_added when N > 0 and the "There are no
\* new sites" message exactly when sites_added is empty.
C10_BulkAttachAddsTheMissingSites ==
    [][(last'.op = BulkAttach /\ last'.status = "ok")
       => LET missing == Missing(db, "ocf")
              added == last'.out.sites_added
          IN /\ added = [i \in DOMAIN missing |-> UuidStr(missing[i])]
             /\ \A i \in DOMAIN db'.sites :
                   BagIn(db'.sites[i].site_uuid, db'.group_sites["ocf"])
             /\ Len(added) > 0 => last'.out.message = Added(Len(added), "ocf")
             /\ last'.out.message = NoNewSites("ocf") <=> Len(added) = 0]_vars

\* A completed bulk attach that added one site to a group that had the other.
C10_Witness ==
    /\ last.op = BulkAttach /\ last.status = "ok"
    /\ Len(last.out.sites_added) = 1
    /\ Len(db.sites) = MaxSites
    /\ last.out.message = Added(1, "ocf")

\* C6: create_new_site is called only when each of the twelve fields holds
\* text; with an empty field no call is made and the "Please check that
\* you've entered data for each field" message is shown.
C6_CreateOnlyWithEveryField ==
    (last.op = "create_new_site" /\ last.status # "skipped")
    => /\ last.out.called => last.out.empty = {}
       /\ last.out.empty # {} => (~last.out.called /\ last.out.shown = "please_check")

\* The helpers the page calls with a session.
Helpers == Buttons \cup {"select_site_id"}

\* The session of the i-th event has been entered and not yet left.
Live(events, i) ==
    \E j \in 1..(i - 1) :
        /\ events[j] = Enter(events[i].session)
        /\ \A k \in (j + 1)..(i - 1) : events[k] # Exit(events[i].session)

\* C7: every call of a query or mutation helper in sites_toolbox_page is made
\* with a session that has been acquired and not yet released.
C7_HelpersGetLiveSession ==
    \A i \in DOMAIN trace :
        (trace[i].ev = "call" /\ trace[i].helper \in Helpers) => Live(trace, i)

====
